---- MODULE Spec2Model ----
(***************************************************************************)
(* The Google (Gemini) proxy route of ChatGPT-Next-Web: handle() and the   *)
(* streaming keep-alive relay request().                                   *)
(*                                                                         *)
(* Two revisions of request() are in the source tree:                      *)
(*   "google"  : src/app/api/google.ts   (REAL-WRITE heartbeat, catch)     *)
(*   "part000" : src/unnamed/part_000    (plain heartbeat, no catch)       *)
(* The variable `variant` says which one a behaviour runs.                 *)
(*                                                                         *)
(* JavaScript runs every callback to its next await without interruption,  *)
(* so one action is one such run: the timer callbacks, and the             *)
(* continuation of the asynchronous task after each await (fetch,          *)
(* res.text(), reader.read()), catch and finally included.                 *)
(***************************************************************************)
EXTENDS Integers, Sequences, FiniteSets, TLC

VARIABLES
    variant,                 \* which revision of request() runs
    method,                  \* req.method
    authOk,                  \* ~auth(req, ...).error
    xGoogKey,                \* req.headers.get("x-goog-api-key"), <<>> when absent
    authorization,           \* req.headers.get("Authorization"), <<>> when absent
    serverKey,               \* serverConfig.googleApiKey, <<>> when unset
    pc,                      \* where the handler / the asynchronous task stands
    httpStatus,              \* status of the client-facing response, 0 before it
    apiKey,                  \* handle(): the resolved key
    fetchKey,                \* fetchOptions.headers["x-goog-api-key"]
    respBody,                \* what the client-facing response carries
    authCalled,              \* handle() has called auth()
    timeoutId,               \* the deadline timer: "none", "armed", "fired", "cleared"
    aborted,                 \* controller.signal.aborted
    intervalRealWrite,       \* google.ts handle: "undefined", "id", "null"
    intervalId,              \* part_000 handle: "undefined", "id"
    tickerRunning,           \* the runtime still holds the interval timer
    intervalRealWrite_wrote, \* google.ts flag: the "> Waiting." frame was sent
    isFirstChunk,            \* the copy loop's flag
    out,                     \* every writer.write(), in call order
    closeCalls,              \* number of writer.close() calls
    clientGone,              \* the readable side was cancelled by the client
    err,                     \* what the task's try block threw, "none" if nothing
    unhandled,               \* the task's promise rejected with no handler
    resStatus,               \* res.status, 0 before fetch resolves
    chunksRead,              \* chunks the copy loop has read
    received,                \* the chunks read from the upstream body, in order
    stopCalls,               \* number of clearInterval() calls
    decoderPending,          \* TextDecoder holds the lead byte of a split character
    now,                     \* seconds since request() started, exact below MaxTime
    nextBeat                 \* when the interval timer is next due

vars == << variant, method, authOk, xGoogKey, authorization, serverKey, pc,
           httpStatus, apiKey, fetchKey, timeoutId, aborted, intervalRealWrite,
           intervalId, tickerRunning, intervalRealWrite_wrote, isFirstChunk, out,
           closeCalls, clientGone, err, unhandled, resStatus, chunksRead,
           decoderPending, now, nextBeat, respBody, authCalled, received,
           stopCalls >>

reqVars == << variant, method, authOk, xGoogKey, authorization, serverKey >>

(***************************************************************************)
(* Bounds.                                                                 *)
(***************************************************************************)
\* chunks one upstream body delivers at most
MaxChunks == 2
\* the clock is exact for this many seconds; from then on only "later" is known
MaxTime == 6
\* heartbeat frames of one session at most
MaxBeats == 4

(***************************************************************************)
(* Program constants.                                                      *)
(***************************************************************************)
\* HEARTBEAT_INTERVAL = 2 * 1000 ms, in seconds
HEARTBEAT_INTERVAL == 2

Variants == {"google", "part000"}
Methods == {"OPTIONS", "POST"}

(***************************************************************************)
(* Strings of the key headers: sequences over "b" (the word Bearer),       *)
(* " " (a blank) and key characters "k", "s". "Bearer " is <<"b", " ">>.   *)
(* Headers.get() returns values with no leading or trailing blank.         *)
(***************************************************************************)
Bearer == << "b", " " >>

XGoogValues == { <<>>, << "k" >> }
AuthorizationValues == { <<>>, << "b", " ", "k" >> }
ServerKeyValues == { <<>>, << "s" >> }

StartsWithBearer(s) == Len(s) >= 2 /\ SubSeq(s, 1, 2) = Bearer

RECURSIVE replaceAll(_)
\* String.prototype.replaceAll("Bearer ", ""): every occurrence, left to right
replaceAll(s) ==
    IF s = <<>> THEN <<>>
    ELSE IF StartsWithBearer(s) THEN replaceAll(SubSeq(s, 3, Len(s)))
    ELSE << Head(s) >> \o replaceAll(Tail(s))

RECURSIVE replace(_)
\* String.prototype.replace("Bearer ", ""): the first occurrence only
replace(s) ==
    IF s = <<>> THEN <<>>
    ELSE IF StartsWithBearer(s) THEN SubSeq(s, 3, Len(s))
    ELSE << Head(s) >> \o replace(Tail(s))

RECURSIVE trimStart(_)
trimStart(s) == IF s # <<>> /\ Head(s) = " " THEN trimStart(Tail(s)) ELSE s

RECURSIVE trimEnd(_)
trimEnd(s) ==
    IF s # <<>> /\ s[Len(s)] = " " THEN trimEnd(SubSeq(s, 1, Len(s) - 1)) ELSE s

\* String.prototype.trim()
trim(s) == trimEnd(trimStart(s))

\* a || b on strings: the empty string and null are falsy
OrElse(a, b) == IF a # <<>> THEN a ELSE b

\* handle(): bearToken, token and apiKey
bearToken == OrElse(xGoogKey, OrElse(authorization, <<>>))
token == trim(replaceAll(trim(bearToken)))
ResolvedApiKey == IF token # <<>> THEN token ELSE serverKey

\* request(): the x-goog-api-key header of fetchOptions
FetchOptionsKey == OrElse(xGoogKey, replace(authorization))

(***************************************************************************)
(* Upstream bytes and TextDecoder / TextEncoder.                           *)
(* Bytes: "a" a one-byte character, "L" "T" the lead and the trail byte    *)
(* of a two-byte character, "r" the three-byte encoding of U+FFFD.         *)
(* Characters: "a", "X" (the two-byte character), "R" (U+FFFD).            *)
(***************************************************************************)
ChunkValues == { << "a" >>, << "L" >>, << "T" >> }

Emit(c, r) == [text |-> << c >> \o r.text, pending |-> r.pending]

RECURSIVE decode(_, _)
\* decoder.decode(value, { stream: true }): a lead byte at the end of a chunk
\* is kept for the next call; a malformed byte decodes to U+FFFD
decode(pending, bytes) ==
    IF bytes = <<>> THEN [text |-> <<>>, pending |-> pending]
    ELSE LET b == Head(bytes) IN
         IF pending
         THEN IF b = "T" THEN Emit("X", decode(FALSE, Tail(bytes)))
                         ELSE Emit("R", decode(FALSE, bytes))
         ELSE IF b = "a" THEN Emit("a", decode(FALSE, Tail(bytes)))
              ELSE IF b = "L" THEN decode(TRUE, Tail(bytes))
              ELSE Emit("R", decode(FALSE, Tail(bytes)))

RECURSIVE encode(_)
\* encoder.encode(text)
encode(text) ==
    IF text = <<>> THEN <<>>
    ELSE (CASE Head(text) = "a" -> << "a" >>
            [] Head(text) = "X" -> << "L", "T" >>
            [] OTHER -> << "r" >>) \o encode(Tail(text))

(***************************************************************************)
(* Frames: what one writer.write() call is given.                          *)
(*   kind   "heartbeat", "transitional", "relayed", "error"                *)
(*   shape  "envelope" (data: {"candidates":[...text...]}), "bare"         *)
(*          (data: {"error":true,...}), "plain" (no SSE framing), "raw"    *)
(*   gone, closed: whether the client had already cancelled the readable   *)
(*          side / the writer had already been closed at the call: such a  *)
(*          write() returns a rejected promise                             *)
(*   ticking: whether the interval timer was still set at the call         *)
(***************************************************************************)
Frame(kind, shape, text, status, body, bytes, secs) ==
    [kind |-> kind, shape |-> shape, text |-> text, status |-> status,
     body |-> body, bytes |-> bytes, secs |-> secs,
     gone |-> clientGone, closed |-> closeCalls > 0, ticking |-> tickerRunning]

\* the interval callback of google.ts: "> Waiting." first, "." afterwards
RealWriteHeartbeat ==
    Frame("heartbeat", "envelope",
          IF ~intervalRealWrite_wrote THEN "> Waiting." ELSE ".",
          0, "", <<>>, 0)

\* the interval callback of part_000
PlainHeartbeat == Frame("heartbeat", "plain", "Waiting...", 0, "", <<>>, 0)

\* the elapsed-time frame written when the copy loop starts
TransitionalFrame ==
    Frame("transitional", "envelope",
          IF ~intervalRealWrite_wrote THEN ">  (time cost)" ELSE " (time cost)",
          0, "", <<>>, now)

\* the frame of the non-ok branch: status, statusText and the body text
UpstreamErrorFrame(status, body) ==
    Frame("error", "envelope", "Upstream Error", status, body, <<>>, 0)

\* (e as Error).message for what the try block can throw
ErrMessage(e) ==
    CASE e = "status" -> "[Alive] Upstream fetch failed with status"
      [] e = "fetch"  -> "fetch failed"
      [] e = "abort"  -> "The operation was aborted"
      [] e = "nobody" -> "Cannot read properties of null"
      [] OTHER        -> "read failed"

\* the frame of the catch block
CatchFrame(e) ==
    Frame("error", "bare", ErrMessage(e),
          IF e = "status" THEN resStatus ELSE 0, "", <<>>, 0)

\* the chunk, decoded and encoded again, as the copy loop writes it
RelayedFrame(bytes) == Frame("relayed", "raw", "", 0, "", bytes, 0)

IsHeartbeat(f) == f.kind = "heartbeat"
HasMarker(f) == f.text \in { "> Waiting.", ">  (time cost)" }
Heartbeats == { i \in DOMAIN out : IsHeartbeat(out[i]) }
ErrorFrames == { i \in DOMAIN out : out[i].kind = "error" }

\* res.ok
Ok(status) == status >= 200 /\ status <= 299

UpstreamStatuses == { 200, 500 }
ErrorBodies == { "server error", "" }

Active == { "fetch", "text", "read" }

Init ==
    /\ variant \in Variants
    /\ method \in Methods
    /\ authOk \in BOOLEAN
    /\ xGoogKey \in XGoogValues
    /\ authorization \in AuthorizationValues
    /\ serverKey \in ServerKeyValues
    /\ pc = "idle"
    /\ httpStatus = 0
    /\ apiKey = <<>>
    /\ fetchKey = <<>>
    /\ timeoutId = "none"
    /\ aborted = FALSE
    /\ intervalRealWrite = "undefined"
    /\ intervalId = "undefined"
    /\ tickerRunning = FALSE
    /\ intervalRealWrite_wrote = FALSE
    /\ isFirstChunk = TRUE
    /\ out = <<>>
    /\ closeCalls = 0
    /\ clientGone = FALSE
    /\ err = "none"
    /\ unhandled = FALSE
    /\ resStatus = 0
    /\ chunksRead = 0
    /\ decoderPending = FALSE
    /\ now = 0
    /\ nextBeat = 0
    /\ respBody = "none"
    /\ authCalled = FALSE
    /\ received = <<>>
    /\ stopCalls = 0

\* a handler that treats OPTIONS like any other method
IsOptionsNever == FALSE

\* handle(): req.method === "OPTIONS"
IsOptions == method = "OPTIONS"

\* a handler that ignores the result of auth()
UnauthorizedIgnored == FALSE

\* handle(): authResult.error
Unauthorized == ~authOk

\* handle(): !apiKey
MissingKey == ResolvedApiKey = <<>>

\* the JSON bodies with error: true (authResult of a failed auth, and the
\* missing-key body)
BodyError(b) == b \in { "authResult", "missing GOOGLE_API_KEY" }

sessionVars == << timeoutId, aborted, intervalRealWrite, intervalId, tickerRunning,
                  intervalRealWrite_wrote, isFirstChunk, out, closeCalls,
                  clientGone, err, unhandled, resStatus, chunksRead,
                  decoderPending, now, nextBeat, received, stopCalls >>

(***************************************************************************)
(* handle(): the OPTIONS, auth and key checks, then request() up to the    *)
(* return of the Response. request() arms the deadline timer, builds       *)
(* fetchOptions, starts the interval timer, starts the asynchronous task   *)
(* (which runs to its await fetch) and returns the stream with status 200. *)
(***************************************************************************)
Handle ==
    /\ pc = "idle"
    /\ \/ /\ IsOptions
          /\ httpStatus' = 200
          /\ respBody' = "OK"
          /\ authCalled' = FALSE
          /\ pc' = "returned"
          /\ UNCHANGED << apiKey, fetchKey, sessionVars >>
       \/ /\ ~IsOptions
          /\ Unauthorized
          /\ httpStatus' = 401
          /\ respBody' = "authResult"
          /\ authCalled' = TRUE
          /\ pc' = "returned"
          /\ UNCHANGED << apiKey, fetchKey, sessionVars >>
       \/ /\ ~IsOptions
          /\ ~Unauthorized
          /\ MissingKey
          /\ httpStatus' = 401
          /\ respBody' = "missing GOOGLE_API_KEY"
          /\ authCalled' = TRUE
          /\ pc' = "returned"
          /\ UNCHANGED << apiKey, fetchKey, sessionVars >>
       \/ /\ ~IsOptions
          /\ ~Unauthorized
          /\ ~MissingKey
          /\ apiKey' = ResolvedApiKey
          /\ authCalled' = TRUE
          /\ timeoutId' = "armed"
          /\ fetchKey' = FetchOptionsKey
          /\ intervalRealWrite' = IF variant = "google" THEN "id" ELSE intervalRealWrite
          /\ intervalId' = IF variant = "part000" THEN "id" ELSE intervalId
          /\ tickerRunning' = TRUE
          /\ now' = 0
          /\ nextBeat' = HEARTBEAT_INTERVAL
          /\ pc' = "fetch"
          /\ httpStatus' = 200
          /\ respBody' = "stream"
          /\ UNCHANGED << aborted, intervalRealWrite_wrote, isFirstChunk, out,
                          closeCalls, stopCalls, clientGone, err, unhandled,
                          resStatus, chunksRead, decoderPending, received >>
    /\ UNCHANGED reqVars

(***************************************************************************)
(* Pieces of the asynchronous task that several continuations share.       *)
(***************************************************************************)
\* clearInterval: the runtime drops the interval timer
clearInterval == FALSE

\* a first pass that forgets to stop the ticker
FirstChunkTickerKept == tickerRunning

\* the copy loop's first pass, google.ts: if (intervalRealWrite) clearInterval
FirstChunkTicker == IF intervalRealWrite = "id" THEN clearInterval ELSE tickerRunning

\* part_000: clearInterval(intervalId) on the first chunk of the iteration
Part000FirstChunkTicker == IF isFirstChunk THEN clearInterval ELSE tickerRunning

\* finally: clearTimeout(timeoutId)
FinallyTimeout == "cleared"

\* a clearInterval that restarts a ticker it finds stopped
FinallyTickerRestarts(tick) == ~tick

\* a finally block that leaves the ticker alone
FinallyTickerKept(tick) == tick

\* finally: if (intervalRealWrite) clearInterval / if (intervalId) clearInterval
\* (tick is the ticker state the try block left)
FinallyTicker(tick) ==
    IF variant = "google"
    THEN IF intervalRealWrite = "id" THEN clearInterval ELSE tick
    ELSE IF intervalId = "id" THEN clearInterval ELSE tick

\* a finally block that does not close the writer
FinallyNoClose == closeCalls

\* finally: writer.close()
FinallyCloseCalls == closeCalls + 1

\* a catch block that only logs
CatchLogsOnly(o, e) == o

\* the catch block of google.ts writes one frame; part_000 has no catch
CatchWrites(o, e) == IF variant = "google" THEN Append(o, CatchFrame(e)) ELSE o

\* after the first pass / after finally, the handle google.ts keeps
NulledHandle == IF intervalRealWrite = "id" THEN "null" ELSE intervalRealWrite

\* finally: whether clearInterval is called (1) or the guard skips it (0)
FinallyStops ==
    IF variant = "google"
    THEN IF intervalRealWrite = "id" THEN 1 ELSE 0
    ELSE IF intervalId = "id" THEN 1 ELSE 0

\* the finally block; tick is the ticker state and stops the number of
\* clearInterval calls the try block left
Finally(tick, stops) ==
    /\ stopCalls' = stops + FinallyStops
    /\ timeoutId' = FinallyTimeout
    /\ intervalRealWrite' = NulledHandle
    /\ tickerRunning' = FinallyTicker(tick)
    /\ closeCalls' = FinallyCloseCalls
    /\ pc' = "done"

\* the try block throws e: catch (google.ts only), then finally; in part_000
\* the rejection leaves the task, which nothing awaits
TaskThrows(o, e, tick, stops) ==
    /\ err' = e
    /\ out' = CatchWrites(o, e)
    /\ unhandled' = (variant = "part000")
    /\ Finally(tick, stops)

handleVars == << httpStatus, apiKey, fetchKey, respBody, authCalled >>
clockVars == << now, nextBeat >>

(***************************************************************************)
(* The timers.                                                             *)
(***************************************************************************)
\* the deadline of setTimeout, 10 * 60 * 1000 ms, in seconds
DEADLINE == 600

\* the interval timer is due: at its period while the clock is exact, at any
\* moment (up to MaxBeats frames) once it is not
BeatDue ==
    IF now < MaxTime THEN nextBeat = now ELSE Cardinality(Heartbeats) < MaxBeats

\* the setInterval callback
Heartbeat ==
    /\ tickerRunning
    /\ BeatDue
    /\ out' = Append(out, IF variant = "google" THEN RealWriteHeartbeat
                                                ELSE PlainHeartbeat)
    /\ intervalRealWrite_wrote' =
           IF variant = "google" THEN TRUE ELSE intervalRealWrite_wrote
    /\ nextBeat' = IF now < MaxTime THEN nextBeat + HEARTBEAT_INTERVAL ELSE nextBeat
    /\ UNCHANGED << reqVars, pc, handleVars, timeoutId, aborted, intervalRealWrite,
                    intervalId, tickerRunning, isFirstChunk, closeCalls, stopCalls, clientGone,
                    err, unhandled, resStatus, chunksRead, decoderPending, received, now >>

\* one second passes; a timer that is due runs first
Tick ==
    /\ pc \in Active
    /\ now < MaxTime
    /\ ~(tickerRunning /\ nextBeat = now)
    /\ now' = now + 1
    /\ UNCHANGED << reqVars, pc, handleVars, timeoutId, aborted, intervalRealWrite,
                    intervalId, tickerRunning, intervalRealWrite_wrote, isFirstChunk,
                    out, closeCalls, stopCalls, clientGone, err, unhandled, resStatus,
                    chunksRead, decoderPending, received, nextBeat >>

\* a deadline callback that does not abort
AbortForgotten == aborted

\* controller.abort()
AbortSignal == TRUE

\* the setTimeout callback; DEADLINE lies beyond the exact clock
DeadlineFire ==
    /\ timeoutId = "armed"
    /\ IF DEADLINE <= MaxTime THEN now >= DEADLINE ELSE now = MaxTime
    /\ aborted' = AbortSignal
    /\ timeoutId' = "fired"
    /\ UNCHANGED << reqVars, pc, handleVars, intervalRealWrite, intervalId,
                    tickerRunning, intervalRealWrite_wrote, isFirstChunk, out,
                    closeCalls, stopCalls, clientGone, err, unhandled, resStatus, chunksRead,
                    decoderPending, received, clockVars >>

\* the client cancels the readable side; request() registers no handler for it
ClientDisconnect ==
    /\ pc \in Active
    /\ ~clientGone
    /\ clientGone' = TRUE
    /\ UNCHANGED << reqVars, pc, handleVars, timeoutId, aborted, intervalRealWrite,
                    intervalId, tickerRunning, intervalRealWrite_wrote, isFirstChunk,
                    out, closeCalls, stopCalls, err, unhandled, resStatus, chunksRead,
                    decoderPending, received, clockVars >>

(***************************************************************************)
(* The asynchronous task: one action per continuation after an await.      *)
(* Once the signal is aborted a pending await can only reject              *)
(* (AbortDelivered).                                                       *)
(***************************************************************************)
\* fetch rejects: the upstream is unreachable
FetchFail ==
    /\ pc = "fetch"
    /\ ~aborted
    /\ TaskThrows(out, "fetch", tickerRunning, stopCalls)
    /\ UNCHANGED << reqVars, handleVars, aborted, intervalId,
                    intervalRealWrite_wrote, isFirstChunk, clientGone, resStatus,
                    chunksRead, decoderPending, received, clockVars >>

\* google.ts: fetch resolves with a non-2xx status; the task awaits res.text()
FetchNotOk ==
    /\ pc = "fetch"
    /\ variant = "google"
    /\ ~aborted
    /\ \E status \in UpstreamStatuses :
          /\ ~Ok(status)
          /\ resStatus' = status
    /\ pc' = "text"
    /\ UNCHANGED << reqVars, handleVars, timeoutId, aborted, intervalRealWrite,
                    intervalId, tickerRunning, intervalRealWrite_wrote, isFirstChunk,
                    out, closeCalls, stopCalls, clientGone, err, unhandled, chunksRead,
                    decoderPending, received, clockVars >>

\* fetch resolves with a response that has no body: res.body.getReader() /
\* the iteration of res.body throws a TypeError
FetchNoBody ==
    /\ pc = "fetch"
    /\ ~aborted
    /\ \E status \in UpstreamStatuses :
          /\ variant = "google" => Ok(status)
          /\ resStatus' = status
    /\ TaskThrows(out, "nobody", tickerRunning, stopCalls)
    /\ UNCHANGED << reqVars, handleVars, aborted, intervalId,
                    intervalRealWrite_wrote, isFirstChunk, clientGone, chunksRead,
                    decoderPending, received, clockVars >>

\* google.ts: fetch resolves with a 2xx status and a body: the first pass of
\* the copy loop stops the ticker, writes the transitional frame and awaits
\* reader.read()
FetchOk ==
    /\ pc = "fetch"
    /\ variant = "google"
    /\ ~aborted
    /\ \E status \in UpstreamStatuses :
          /\ Ok(status)
          /\ resStatus' = status
    /\ isFirstChunk' = FALSE
    /\ tickerRunning' = FirstChunkTicker
    /\ stopCalls' = stopCalls + (IF intervalRealWrite = "id" THEN 1 ELSE 0)
    /\ intervalRealWrite' = NulledHandle
    /\ out' = Append(out, [TransitionalFrame EXCEPT !.ticking = FirstChunkTicker])
    /\ pc' = "read"
    /\ UNCHANGED << reqVars, handleVars, timeoutId, aborted, intervalId,
                    intervalRealWrite_wrote, closeCalls, clientGone, err, unhandled,
                    chunksRead, decoderPending, received, clockVars >>

\* google.ts: res.text() resolves: the error frame with status and body is
\* written, the Error thrown is caught and written as well, then finally
TextResolve ==
    /\ pc = "text"
    /\ ~aborted
    /\ \E body \in ErrorBodies :
          TaskThrows(Append(out, UpstreamErrorFrame(resStatus, body)), "status",
                     tickerRunning, stopCalls)
    /\ UNCHANGED << reqVars, handleVars, aborted, intervalId,
                    intervalRealWrite_wrote, isFirstChunk, clientGone, resStatus,
                    chunksRead, decoderPending, received, clockVars >>

\* google.ts: res.text() rejects
TextFail ==
    /\ pc = "text"
    /\ ~aborted
    /\ TaskThrows(out, "text", tickerRunning, stopCalls)
    /\ UNCHANGED << reqVars, handleVars, aborted, intervalId,
                    intervalRealWrite_wrote, isFirstChunk, clientGone, resStatus,
                    chunksRead, decoderPending, received, clockVars >>

\* part_000: fetch resolves (any status) with a body; the task awaits the
\* first chunk of the iteration
Part000FetchBody ==
    /\ pc = "fetch"
    /\ variant = "part000"
    /\ ~aborted
    /\ \E status \in UpstreamStatuses : resStatus' = status
    /\ pc' = "read"
    /\ UNCHANGED << reqVars, handleVars, timeoutId, aborted, intervalRealWrite,
                    intervalId, tickerRunning, intervalRealWrite_wrote, isFirstChunk,
                    out, closeCalls, stopCalls, clientGone, err, unhandled, chunksRead,
                    decoderPending, received, clockVars >>

\* google.ts: reader.read() resolves with a chunk: it is decoded, encoded
\* again and written
ReadChunk ==
    /\ pc = "read"
    /\ variant = "google"
    /\ ~aborted
    /\ chunksRead < MaxChunks
    /\ \E value \in ChunkValues :
          LET d == decode(decoderPending, value) IN
          /\ out' = Append(out, RelayedFrame(encode(d.text)))
          /\ decoderPending' = d.pending
          /\ received' = Append(received, value)
    /\ chunksRead' = chunksRead + 1
    /\ UNCHANGED << reqVars, pc, handleVars, timeoutId, aborted, intervalRealWrite,
                    intervalId, tickerRunning, intervalRealWrite_wrote, isFirstChunk,
                    closeCalls, stopCalls, clientGone, err, unhandled, resStatus, clockVars >>

\* part_000: the iteration yields a chunk (a Uint8Array): the first one stops
\* the ticker; chunk.choices is undefined, so chunk.choices[0] throws a
\* TypeError, and finally runs
Part000Chunk ==
    /\ pc = "read"
    /\ variant = "part000"
    /\ ~aborted
    /\ chunksRead < MaxChunks
    /\ chunksRead' = chunksRead + 1
    /\ isFirstChunk' = FALSE
    /\ \E value \in ChunkValues : received' = Append(received, value)
    /\ TaskThrows(out, "type", Part000FirstChunkTicker,
                  stopCalls + (IF isFirstChunk THEN 1 ELSE 0))
    /\ UNCHANGED << reqVars, handleVars, aborted, intervalId,
                    intervalRealWrite_wrote, clientGone, resStatus, decoderPending,
                    clockVars >>

\* the upstream body ends: the loop is left and finally runs
ReadDone ==
    /\ pc = "read"
    /\ ~aborted
    /\ Finally(tickerRunning, stopCalls)
    /\ UNCHANGED << reqVars, handleVars, aborted, intervalId,
                    intervalRealWrite_wrote, isFirstChunk, out, clientGone, err,
                    unhandled, resStatus, chunksRead, decoderPending, received, clockVars >>

\* reading the upstream body fails
ReadFail ==
    /\ pc = "read"
    /\ ~aborted
    /\ TaskThrows(out, "read", tickerRunning, stopCalls)
    /\ UNCHANGED << reqVars, handleVars, aborted, intervalId,
                    intervalRealWrite_wrote, isFirstChunk, clientGone, resStatus,
                    chunksRead, decoderPending, received, clockVars >>

\* the signal was aborted: the pending fetch / text() / read() rejects
AbortDelivered ==
    /\ pc \in Active
    /\ aborted
    /\ TaskThrows(out, "abort", tickerRunning, stopCalls)
    /\ UNCHANGED << reqVars, handleVars, aborted, intervalId,
                    intervalRealWrite_wrote, isFirstChunk, clientGone, resStatus,
                    chunksRead, decoderPending, received, clockVars >>

Next ==
    \/ Handle
    \/ Heartbeat
    \/ Tick
    \/ DeadlineFire
    \/ ClientDisconnect
    \/ FetchFail
    \/ FetchNotOk
    \/ FetchNoBody
    \/ FetchOk
    \/ TextResolve
    \/ TextFail
    \/ Part000FetchBody
    \/ ReadChunk
    \/ Part000Chunk
    \/ ReadDone
    \/ ReadFail
    \/ AbortDelivered

Spec == Init /\ [][Next]_vars

\* timers run when due, time passes, and an aborted await rejects
FairSpec ==
    /\ Spec
    /\ WF_vars(Tick)
    /\ WF_vars(Heartbeat)
    /\ WF_vars(DeadlineFire)
    /\ WF_vars(AbortDelivered)

(***************************************************************************)
(* Properties.                                                             *)
(***************************************************************************)
TaskFrames == { i \in DOMAIN out : ~IsHeartbeat(out[i]) }
FailedWrite(f) == f.gone \/ f.closed
Opened == pc \in Active \cup { "done" }

\* C1: in every session the writes are heartbeat frames first and then
\* transitional / relayed / error frames: no heartbeat frame is written after
\* a frame of another kind.
C1_HeartbeatsFirst ==
    \A i, j \in DOMAIN out :
        (i < j /\ ~IsHeartbeat(out[i])) => ~IsHeartbeat(out[j])

\* a finished session with a heartbeat, then a relayed frame and an error frame
C1_Witness ==
    /\ pc = "done"
    /\ Heartbeats # {}
    /\ \E i, j \in TaskFrames :
          i < j /\ out[i].kind = "relayed" /\ out[j].kind = "error"

\* C2: the writer is closed exactly once: never twice, not before the task
\* ends, and once the task has ended (on any path) it has been closed.
C2_ClosedExactlyOnce ==
    /\ closeCalls <= 1
    /\ pc \in Active => closeCalls = 0
    /\ pc = "done" => closeCalls = 1

\* a session ended by a read error in the middle of the body
C2_Witness == pc = "done" /\ err = "read" /\ chunksRead > 0 /\ closeCalls = 1

\* C3: after a non-2xx upstream response the stream holds exactly one error
\* frame, which carries the status and the body text, the writer is closed and
\* the client-facing status is 200.
C3_OneErrorFrameOnNon2xx ==
    (variant = "google" /\ pc = "done" /\ err = "status") =>
        /\ Cardinality(ErrorFrames) = 1
        /\ \A i \in ErrorFrames :
              out[i].status = resStatus /\ out[i].text = "Upstream Error"
        /\ closeCalls = 1
        /\ httpStatus = 200

\* C4: every open session is eventually closed, and once the deadline timer
\* has aborted the upstream call of google.ts the task ends with an error
\* frame written and the writer closed (also while the copy loop awaits a
\* chunk).
C4_DeadlineCloses ==
    /\ (pc \in Active) ~> (closeCalls = 1)
    /\ (variant = "google" /\ aborted /\ pc \in Active)
           ~> (pc = "done" /\ err = "abort" /\ closeCalls = 1
               /\ \E i \in ErrorFrames : out[i].text = ErrMessage("abort"))

\* the deadline fired while the copy loop of google.ts awaited a chunk
C4_Witness ==
    /\ variant = "google"
    /\ pc = "done"
    /\ err = "abort"
    /\ \E i \in TaskFrames : out[i].kind = "transitional"
    /\ chunksRead > 0

\* C5: in google.ts every failure of the task after the stream was opened has
\* an error frame written before the writer is closed (accepted by the stream
\* unless the client had gone), with client-facing status 200; a status other
\* than 200 comes only from the auth and missing-key checks, with no stream.
C5_FailuresBecomeFrames ==
    /\ (variant = "google" /\ pc = "done" /\ err # "none") =>
          /\ \E i \in ErrorFrames :
                /\ ~out[i].closed
                /\ ~clientGone => ~out[i].gone
                /\ out[i].text = ErrMessage(err)
          /\ closeCalls = 1
    /\ Opened => httpStatus = 200
    /\ httpStatus \notin { 0, 200 } =>
          /\ pc = "returned"
          /\ method # "OPTIONS"
          /\ ~authOk \/ ResolvedApiKey = <<>>
          /\ timeoutId = "none" /\ out = <<>> /\ closeCalls = 0

\* a 2xx response without a body: getReader() threw inside the try block
C5_Witness ==
    /\ variant = "google"
    /\ pc = "done"
    /\ err = "nobody"
    /\ httpStatus = 200
    /\ ErrorFrames # {}

\* C6: the upstream request carries the resolved API key (the client token,
\* else the configured fallback key) in x-goog-api-key.
C6_UpstreamKeyIsResolvedKey == Opened => fetchKey = apiKey

\* C7: while the session is open and no upstream chunk has been read the
\* ticker is active, so every period tick writes a heartbeat frame.
C7_TickerUntilFirstChunk == (pc \in Active /\ chunksRead = 0) => tickerRunning

\* C8: when the writer is closed the deadline timer is no longer armed and the
\* ticker is stopped, and no write of any kind follows the close.
C8_CleanupBeforeClose ==
    /\ closeCalls >= 1 => (timeoutId # "armed" /\ ~tickerRunning)
    /\ \A i \in DOMAIN out : ~out[i].closed

\* a closed session that had written heartbeats while its timers were running
C8_Witness ==
    /\ closeCalls = 1
    /\ Cardinality(Heartbeats) >= 2
    /\ timeoutId = "cleared"
    /\ ~tickerRunning

\* C9: after the client has disconnected no heartbeat tick writes to the
\* stream: the disconnect stops the ticker and cancels the deadline timer.
C9_DisconnectStopsTimers ==
    /\ \A i \in Heartbeats : ~out[i].gone
    /\ (clientGone /\ pc \in Active) => (~tickerRunning /\ timeoutId # "armed")

\* C10: after a write of the task has failed the task attempts no further
\* write (and so reads no further chunk): at most one write of the task fails.
C10_WriteFailureTerminates ==
    Cardinality({ i \in TaskFrames : FailedWrite(out[i]) }) <= 1

\* C11: every error frame the relay writes has the envelope shape of a content
\* frame (the upstream streaming schema with the error embedded as content).
C11_ErrorFramesInEnvelope == \A i \in ErrorFrames : out[i].shape = "envelope"

NoSession ==
    /\ pc = "returned"
    /\ timeoutId = "none"
    /\ ~tickerRunning
    /\ intervalRealWrite = "undefined" /\ intervalId = "undefined"
    /\ out = <<>>
    /\ resStatus = 0 /\ received = <<>>
    /\ closeCalls = 0

\* C12: a request (other than OPTIONS) that fails auth, or that passes auth
\* with neither a client key nor a configured key, is answered 401 with
\* error: true, and request() is not entered: no stream, no timer, no
\* upstream call.
C12_RejectedBeforeStream ==
    (pc # "idle" /\ method # "OPTIONS"
        /\ (~authOk \/ (token = <<>> /\ serverKey = <<>>))) =>
        /\ httpStatus = 401
        /\ BodyError(respBody)
        /\ NoSession

\* auth passed, but there is no key at all
C12_Witness ==
    /\ pc = "returned"
    /\ method = "POST" /\ authOk
    /\ xGoogKey = <<>> /\ authorization = <<>> /\ serverKey = <<>>
    /\ httpStatus = 401

\* C13: an OPTIONS request is answered 200 at once whatever its credentials:
\* auth is not consulted, and there is no upstream call, stream or timer.
C13_OptionsShortCircuits ==
    (pc # "idle" /\ method = "OPTIONS") =>
        /\ httpStatus = 200
        /\ respBody = "OK"
        /\ ~authCalled
        /\ NoSession

\* an OPTIONS request that would have failed auth
C13_Witness ==
    /\ pc = "returned"
    /\ method = "OPTIONS" /\ ~authOk
    /\ httpStatus = 200

\* C14: with the 2 s period, when the upstream has delivered no data before
\* t = 5 s, so that the first relayed frame is written at 5 s or later, two
\* heartbeat frames (the ticks of 2 s and 4 s) have been written by then.
C14_TwoHeartbeatsBeforeDataAtFive ==
    (variant = "google" /\ pc = "read" /\ chunksRead = 0 /\ now = 5) =>
        Cardinality(Heartbeats) = 2

RECURSIVE Flatten(_)
\* the concatenation of a sequence of byte sequences
Flatten(ss) == IF ss = <<>> THEN <<>> ELSE Head(ss) \o Flatten(Tail(ss))

RECURSIVE WellFormed(_)
\* UTF-8 text, possibly cut after the lead byte of its last character
WellFormed(b) ==
    IF b = <<>> THEN TRUE
    ELSE IF Head(b) = "a" THEN WellFormed(Tail(b))
    ELSE IF Head(b) = "L"
         THEN Len(b) = 1 \/ (b[2] = "T" /\ WellFormed(SubSeq(b, 3, Len(b))))
    ELSE FALSE

\* UTF-8 text of whole characters
Complete(b) == WellFormed(b) /\ (b = <<>> \/ b[Len(b)] # "L")

IsRelayed(f) == f.kind = "relayed"
Relayed == SelectSeq(out, IsRelayed)
RelayedBytes == Flatten([i \in 1 .. Len(Relayed) |-> Relayed[i].bytes])

\* a finished google.ts session: 2xx answered before the first tick was due,
\* one chunk read, then the end of the body
InstantOneChunk ==
    /\ variant = "google"
    /\ pc = "done"
    /\ err = "none"
    /\ Len(received) = 1
    /\ \E i \in DOMAIN out :
          out[i].kind = "transitional" /\ out[i].secs < HEARTBEAT_INTERVAL

\* the frames of such a session: no heartbeat, one transitional frame, one
\* relayed frame, no error frame, and the close
InstantFrames ==
    /\ Len(out) = 2
    /\ out[1].kind = "transitional"
    /\ out[2].kind = "relayed"
    /\ Heartbeats = {} /\ ErrorFrames = {}
    /\ closeCalls = 1

\* C15: a 2xx response with one chunk before the first tick gives
\* no heartbeat frame, one transitional frame, one relayed frame carrying the
\* chunk, then the close, with no error frame.
C15_InstantChunkVerbatim ==
    InstantOneChunk => (InstantFrames /\ out[2].bytes = received[1])

\* what does hold of such a session: the frame sequence, and the chunk carried
\* by the relayed frame when it is UTF-8 text of whole characters
InstantChunkOfText ==
    InstantOneChunk =>
        /\ InstantFrames
        /\ Complete(received[1]) => out[2].bytes = received[1]

\* C16 as claimed: the relay task writes a frame (transitional, relayed or
\* error) only after the ticker has been stopped, on every path.
C16_TaskWritesAfterStop == \A i \in TaskFrames : ~out[i].ticking

\* C16 amended: the ticker and the relay task write over disjoint windows: a
\* transitional or relayed frame is written only after the ticker was stopped,
\* an error frame written while the ticker is still registered is followed by
\* clearInterval in the same run of the task, so that the ticker is stopped in
\* every state that holds a frame of the task and no heartbeat follows one.
C16_DisjointWindows ==
    /\ TaskFrames # {} => ~tickerRunning
    /\ \A i \in TaskFrames :
          /\ out[i].kind \in { "transitional", "relayed" } => ~out[i].ticking
          /\ \A j \in Heartbeats : j < i

\* a finished session whose error frame was written after a heartbeat and
\* before the finally block stopped the ticker
C16_Witness ==
    /\ pc = "done"
    /\ ~tickerRunning
    /\ \E i \in ErrorFrames : out[i].ticking /\ i > 1 /\ IsHeartbeat(out[i - 1])

\* C17: on a 2xx response the relayed frames are exactly the chunks the copy
\* loop read, in the order read, each written once, none dropped, duplicated
\* or reordered, and all after every heartbeat frame.
C17_RelayedAreTheChunks ==
    (variant = "google" /\ Ok(resStatus)) =>
        /\ Len(Relayed) = Len(received)
        /\ \A i \in 1 .. Len(Relayed) : Relayed[i].bytes = received[i]
        /\ \A i, j \in DOMAIN out :
              (IsRelayed(out[i]) /\ IsHeartbeat(out[j])) => j < i

\* what does hold of the copy loop: one relayed frame per chunk read, in
\* order and after every heartbeat; when the body read so far is UTF-8 text
\* the frames carry its bytes except a lead byte the decoder still holds
RelayedOfText ==
    (variant = "google" /\ Ok(resStatus)) =>
        /\ Len(Relayed) = Len(received)
        /\ \A i, j \in DOMAIN out :
              (IsRelayed(out[i]) /\ IsHeartbeat(out[j])) => j < i
        /\ WellFormed(Flatten(received)) =>
              RelayedBytes \o (IF decoderPending THEN << "L" >> ELSE <<>>)
                  = Flatten(received)

\* C18: stopping the ticker is idempotent. A step that calls clearInterval
\* leaves the ticker stopped, whether it calls it once or twice and whether or
\* not the ticker ever fired; once clearInterval has been called, no later
\* step (a second clearInterval included) restarts the ticker or adds a
\* heartbeat frame; every finished session made one or two calls.
C18_StopIdempotent ==
    [][ /\ stopCalls' > stopCalls => ~tickerRunning'
        /\ stopCalls >= 1 => (~tickerRunning' /\ Heartbeats' = Heartbeats)
        /\ pc' = "done" => stopCalls' \in 1 .. 2 ]_vars

\* a finished part_000 session: clearInterval on the first chunk and again in
\* the finally block, after a heartbeat was written
C18_Witness ==
    /\ variant = "part000"
    /\ pc = "done"
    /\ stopCalls = 2
    /\ ~tickerRunning
    /\ Heartbeats # {}

\* a finished session whose ticker was stopped before it ever fired
C18_NeverFired == pc = "done" /\ stopCalls = 1 /\ ~tickerRunning /\ Heartbeats = {}

Marked == { i \in DOMAIN out : HasMarker(out[i]) }
Transitionals == { i \in DOMAIN out : out[i].kind = "transitional" }

\* the marker is in one frame: the first heartbeat if there is one, the
\* transitional frame otherwise; one transitional frame
MarkerOnce ==
    /\ Cardinality(Marked) = 1
    /\ Cardinality(Transitionals) = 1
    /\ \A i \in Marked :
          IF Heartbeats # {}
          THEN IsHeartbeat(out[i]) /\ \A j \in Heartbeats : i <= j
          ELSE out[i].kind = "transitional"

\* C19: in every session that receives a 2xx response the marker "> " is in
\* exactly one frame, the first heartbeat frame when a heartbeat was written
\* and the transitional frame otherwise; the transitional frame is written
\* exactly once on a 2xx response and never on a non-2xx or fetch-failure path.
C19_MarkerExactlyOnce ==
    variant = "google" =>
        IF Ok(resStatus) THEN MarkerOnce ELSE Transitionals = {}

\* what does hold: the same for the 2xx responses that have a body
MarkerOnceWithBody ==
    variant = "google" =>
        IF Ok(resStatus) /\ err # "nobody" THEN MarkerOnce ELSE Transitionals = {}

\* C20: in the part_000 revision every failure of the asynchronous task after
\* the stream is opened (fetch rejects, or the iteration of the upstream body
\* throws) is recovered into an error frame written before the stream is
\* closed, and is not left as an unhandled rejection of the task.
C20_Part000FailuresRecovered ==
    (variant = "part000" /\ pc = "done" /\ err # "none") =>
        /\ \E i \in ErrorFrames : ~out[i].closed
        /\ ~unhandled

====
